---- MODULE Spec2Model ----
(***************************************************************************)
(* Trans Friend: the translation pipeline of src/project/src/App.tsx.      *)
(*                                                                         *)
(* App is a React function component.  Its state lives in useState cells   *)
(* and useRef cells; every handler is a closure created by one render and  *)
(* reads the state values of THAT render.  A handler invoked by the UI is  *)
(* the one of the latest render; a handler stored elsewhere (the timeout   *)
(* callback, the recognizer's onresult/onerror/onend, the continuation of  *)
(* an awaited call) keeps the render it was created in.  The model makes   *)
(* the captured render an explicit value (a "render snapshot").            *)
(*                                                                         *)
(* Texts are sequences of pieces (one-character strings for typed text,    *)
(* longer literals for the fixed messages of the code).                    *)
(***************************************************************************)
EXTENDS Integers, Sequences, FiniteSets, TLC

VARIABLES
    sourceLanguage,         \* App.tsx:10 useState('en')
    targetLanguage,         \* App.tsx:11 useState('ta')
    inputText,              \* App.tsx:12 useState('')
    translations,           \* App.tsx:13 useState<Translation[]>([])
    isRecording,            \* App.tsx:14 useState(false)
    isTranslating,          \* App.tsx:15 useState(false)
    autoTranslate,          \* App.tsx:16 useState(true)
    recognitionRef,         \* App.tsx:17 index into recognizers, 0 = null
    recognizers,            \* every SpeechRecognition object created so far
    synth,                  \* App.tsx:18 window.speechSynthesis
    translationTimeoutRef,  \* App.tsx:19 timeout handle, 0 = null
    timeouts,               \* the pending timeouts of the page
    pending,                \* translateText calls awaiting axios.get
    issued,                 \* number of axios.get requests sent so far
    now,                    \* Date.now()
    hasRecognition,         \* 'SpeechRecognition' in window || 'webkit...'
    alerted,                \* alert() has been shown
    settings,               \* settings changes made so far (languages, checkbox)
    failedSince             \* a translate call has failed and nothing has
                            \* triggered a translation since (history variable)

vars == <<sourceLanguage, targetLanguage, inputText, translations, isRecording,
          isTranslating, autoTranslate, recognitionRef, recognizers, synth,
          translationTimeoutRef, timeouts, pending, issued, now,
          hasRecognition, alerted, settings, failedSince>>

\* The React state cells (everything a render snapshot is taken of, and the list).
pipeline == <<sourceLanguage, targetLanguage, inputText, isRecording,
              isTranslating, autoTranslate>>

----------------------------------------------------------------------------
(* Bounds of the model *)

MaxCalls == 2       \* requests sent in one behaviour
MaxSessions == 2    \* recognizers created in one behaviour
MaxClock == 1       \* largest value of Date.now()
MaxQueue == 2       \* utterances held by the synthesizer
MaxSettings == 1    \* settings changes in one behaviour
MaxActivity == 3    \* requests sent plus recognizers created in one behaviour

----------------------------------------------------------------------------
(* Values *)

\* A subset of the catalog, with the two initial languages.
languages == {"en", "ta"}

\* What the user can type and what the recognizer can transcribe.
Texts == {<<>>, <<" ">>, <<"a">>}
Transcripts == Texts \ {<<>>}

Whitespace == {" "}

\* String.prototype.trim
RECURSIVE TrimStart(_)
TrimStart(s) ==
    IF s # <<>> /\ Head(s) \in Whitespace THEN TrimStart(Tail(s)) ELSE s

RECURSIVE TrimEnd(_)
TrimEnd(s) ==
    IF s # <<>> /\ s[Len(s)] \in Whitespace
    THEN TrimEnd(SubSeq(s, 1, Len(s) - 1))
    ELSE s

trim(s) == TrimEnd(TrimStart(s))

\* A JavaScript string is truthy unless it is empty.
Truthy(s) == s # <<>>

\* The state values one render of App captures in its closures.
Render ==
    [sourceLanguage |-> sourceLanguage, targetLanguage |-> targetLanguage,
     inputText |-> inputText, isRecording |-> isRecording,
     isTranslating |-> isTranslating, autoTranslate |-> autoTranslate]

\* The render committed at the end of the step being taken.
NextRender ==
    [sourceLanguage |-> sourceLanguage', targetLanguage |-> targetLanguage',
     inputText |-> inputText', isRecording |-> isRecording',
     isTranslating |-> isTranslating', autoTranslate |-> autoTranslate']

\* What the translation service can answer: responseStatus 200 with a
\* translatedText, another status with or without responseDetails, or no
\* response at all (axios rejects with its own message).
Responses ==
    {[kind |-> "status", responseStatus |-> 200, text |-> <<"x">>],
     [kind |-> "status", responseStatus |-> 200, text |-> <<>>],
     [kind |-> "status", responseStatus |-> 403, text |-> <<"d">>],
     [kind |-> "status", responseStatus |-> 403, text |-> <<>>],
     [kind |-> "transport", responseStatus |-> 0, text |-> <<"Network Error">>]}

Succeeded(resp) == resp.kind = "status" /\ resp.responseStatus = 200

\* error.message of what translateText's try block throws.
ErrorMessage(resp) ==
    IF resp.kind = "transport" THEN resp.text
    ELSE IF Truthy(resp.text) THEN resp.text ELSE <<"Translation failed">>

\* translateText without its catch: a failure yields no text.
translateTextResultNoCatch(resp) ==
    IF Succeeded(resp) THEN resp.text ELSE <<>>

\* The string translateText resolves to.
translateTextResult(resp) ==
    IF Succeeded(resp) THEN resp.text
    ELSE <<"Error translating text: ">> \o ErrorMessage(resp)

----------------------------------------------------------------------------
Init ==
    /\ sourceLanguage = "en"
    /\ targetLanguage = "ta"
    /\ inputText = <<>>
    /\ translations = <<>>
    /\ isRecording = FALSE
    /\ isTranslating = FALSE
    /\ autoTranslate = TRUE
    /\ recognitionRef = 0
    /\ recognizers = <<>>
    /\ synth = [queue |-> <<>>, speaking |-> FALSE]
    /\ translationTimeoutRef = 0
    /\ timeouts = {}
    /\ pending = {}
    /\ issued = 0
    /\ now = 0
    /\ hasRecognition \in BOOLEAN
    /\ alerted = FALSE
    /\ settings = 0
    /\ failedSince = FALSE

----------------------------------------------------------------------------
(* The platform speech synthesizer and speakText *)

Utterance(text, lang) == [text |-> text, lang |-> lang]

\* SpeechSynthesis.cancel(): removes every utterance from the queue.
cancel(sy) == [queue |-> <<>>, speaking |-> FALSE]

\* SpeechSynthesis.speak(u): appends u to the queue; it starts later.
speak(sy, u) == [sy EXCEPT !.queue = Append(@, u)]

\* speakText(text, lang): the synthesizer after the call.
speakText(text, lang) ==
    speak(IF synth.speaking THEN cancel(synth) ELSE synth, Utterance(text, lang))

\* The page can call speakText only while the queue has room (model bound).
CanSpeak == synth.speaking \/ Len(synth.queue) < MaxQueue

\* The utterance at the head of the queue begins to be spoken.
SynthStart ==
    /\ synth.queue # <<>>
    /\ ~synth.speaking
    /\ synth' = [synth EXCEPT !.speaking = TRUE]
    /\ UNCHANGED <<sourceLanguage, targetLanguage, inputText, translations,
                   isRecording, isTranslating, autoTranslate, recognitionRef,
                   recognizers, translationTimeoutRef, timeouts, pending,
                   issued, now, hasRecognition, failedSince, alerted, settings>>

\* The utterance being spoken finishes (or fails: onerror only logs).
SynthEnd ==
    /\ synth.speaking
    /\ synth' = [queue |-> Tail(synth.queue), speaking |-> FALSE]
    /\ UNCHANGED <<sourceLanguage, targetLanguage, inputText, translations,
                   isRecording, isTranslating, autoTranslate, recognitionRef,
                   recognizers, translationTimeoutRef, timeouts, pending,
                   issued, now, hasRecognition, failedSince, alerted, settings>>

\* onPlayTranslation of a history entry.
PlayTranslation(i) ==
    /\ i \in DOMAIN translations
    /\ CanSpeak
    /\ synth' = speakText(translations[i].targetText, translations[i].targetLanguage)
    /\ UNCHANGED <<sourceLanguage, targetLanguage, inputText, translations,
                   isRecording, isTranslating, autoTranslate, recognitionRef,
                   recognizers, translationTimeoutRef, timeouts, pending,
                   issued, now, hasRecognition, failedSince, alerted, settings>>

----------------------------------------------------------------------------
(* The debounce effect *)

\* setTimeout returns a handle no pending timeout has.
setTimeoutHandle(ts) ==
    CHOOSE h \in 1..(Cardinality(ts) + 1) :
        /\ \A t \in ts : t.handle # h
        /\ \A g \in 1..(h - 1) : \E t \in ts : t.handle = g

\* clearTimeout(handle)
clearTimeout(ts, handle) == {t \in ts : t.handle # handle}

\* The effect with neither its cleanup nor its clearTimeout.
useEffectNoClear ==
    IF inputText' = inputText /\ autoTranslate' = autoTranslate
    THEN UNCHANGED <<translationTimeoutRef, timeouts>>
    ELSE LET h == setTimeoutHandle(timeouts)
         IN  IF autoTranslate' /\ Truthy(trim(inputText'))
             THEN /\ translationTimeoutRef' = h
                  /\ timeouts' = timeouts \cup {[handle |-> h, render |-> NextRender]}
             ELSE UNCHANGED <<translationTimeoutRef, timeouts>>

\* useEffect(..., [inputText, autoTranslate]) as the step commits its render:
\* when a dependency changed, the cleanup of the previous effect runs and then
\* the effect of the new render, whose timeout callback calls the
\* handleTranslate of that render.
useEffect ==
    IF inputText' = inputText /\ autoTranslate' = autoTranslate
    THEN UNCHANGED <<translationTimeoutRef, timeouts>>
    ELSE LET cleaned == clearTimeout(timeouts, translationTimeoutRef)
             h == setTimeoutHandle(cleaned)
         IN  IF autoTranslate' /\ Truthy(trim(inputText'))
             THEN /\ translationTimeoutRef' = h
                  /\ timeouts' = cleaned \cup {[handle |-> h, render |-> NextRender]}
             ELSE /\ translationTimeoutRef' = translationTimeoutRef
                  /\ timeouts' = cleaned

----------------------------------------------------------------------------
(* translateText and handleTranslate *)

\* handleTranslate without the isTranslating test.
handleTranslateUnguarded(r, via) ==
    IF ~Truthy(trim(r.inputText))
    THEN UNCHANGED <<isTranslating, pending, issued>>
    ELSE /\ issued < MaxCalls
         /\ issued + Len(recognizers) < MaxActivity
         /\ isTranslating' = TRUE
         /\ issued' = issued + 1
         /\ pending' = pending \cup
                {[n |-> issued + 1, text |-> r.inputText,
                  from |-> r.sourceLanguage, to |-> r.targetLanguage,
                  isRecording |-> r.isRecording, via |-> via]}

\* handleTranslate of render r up to its await: the guard, then translateText
\* up to axios.get.  The request keeps what the continuation will read from
\* the closure; via records what invoked it.
handleTranslate(r, via) ==
    IF ~Truthy(trim(r.inputText)) \/ r.isTranslating
    THEN UNCHANGED <<isTranslating, pending, issued>>
    ELSE /\ issued < MaxCalls
         /\ issued + Len(recognizers) < MaxActivity
         /\ isTranslating' = TRUE
         /\ issued' = issued + 1
         /\ pending' = pending \cup
                {[n |-> issued + 1, text |-> r.inputText,
                  from |-> r.sourceLanguage, to |-> r.targetLanguage,
                  isRecording |-> r.isRecording, via |-> via]}

\* A record built from the state cells at the time the result arrives.
newTranslationLatest(p, translatedText, t1, t2) ==
    [id |-> ToString(t1), sourceText |-> inputText,
     sourceLanguage |-> sourceLanguage,
     targetText |-> translatedText, targetLanguage |-> targetLanguage,
     timestamp |-> t2, isFavorite |-> FALSE]

\* The record handleTranslate builds; Date.now() is read twice (t1, then t2),
\* within one tick of the model's clock.
newTranslation(p, translatedText, t1, t2) ==
    [id |-> ToString(t1), sourceText |-> p.text, sourceLanguage |-> p.from,
     targetText |-> translatedText, targetLanguage |-> p.to,
     timestamp |-> t2, isFavorite |-> FALSE]

\* setTranslations(prev => [...prev, newTranslation])
appendLast(prev, rec) == prev \o <<rec>>

\* setTranslations(prev => [newTranslation])
appendAlone(prev, rec) == <<rec>>

\* setTranslations(prev => [newTranslation, ...prev])
append(prev, rec) == <<rec>> \o prev

\* TranslateReturns with a translateText that has no finally block.
TranslateReturnsNoFinally(p, resp) ==
    /\ p \in pending
    /\ pending' = pending \ {p}
    /\ isTranslating' = isTranslating
    /\ LET translatedText == translateTextResult(resp) IN
       IF Truthy(translatedText)
       THEN /\ CanSpeak
            /\ translations' =
                 append(translations, newTranslation(p, translatedText, now, now))
            /\ now' = now
            /\ synth' = speakText(translatedText, p.to)
            /\ inputText' = IF ~p.isRecording THEN <<>> ELSE inputText
       ELSE UNCHANGED <<translations, synth, inputText, now>>
    /\ UNCHANGED <<sourceLanguage, targetLanguage, isRecording, autoTranslate,
                   recognitionRef, recognizers, issued, hasRecognition, alerted, settings>>
    /\ failedSince' = (failedSince \/ ~Succeeded(resp))
    /\ useEffect

\* axios.get of request p settles with resp: the rest of translateText
\* (return or catch, then finally) and the rest of handleTranslate.
TranslateReturns(p, resp) ==
    /\ p \in pending
    /\ pending' = pending \ {p}
    /\ isTranslating' = FALSE
    /\ LET translatedText == translateTextResult(resp) IN
       IF Truthy(translatedText)
       THEN /\ CanSpeak
            /\ translations' =
                 append(translations, newTranslation(p, translatedText, now, now))
            /\ now' = now
            /\ synth' = speakText(translatedText, p.to)
            /\ inputText' = IF ~p.isRecording THEN <<>> ELSE inputText
       ELSE UNCHANGED <<translations, synth, inputText, now>>
    /\ UNCHANGED <<sourceLanguage, targetLanguage, isRecording, autoTranslate,
                   recognitionRef, recognizers, issued, hasRecognition, alerted, settings>>
    /\ failedSince' = (failedSince \/ ~Succeeded(resp))
    /\ useEffect

\* The Translate button (disabled while isTranslating or the text is blank).
Submit ==
    /\ ~(isTranslating \/ ~Truthy(trim(inputText)))
    /\ handleTranslate(Render, "submit")
    /\ UNCHANGED <<sourceLanguage, targetLanguage, inputText, translations,
                   isRecording, autoTranslate, recognitionRef, recognizers,
                   synth, translationTimeoutRef, timeouts, now,
                   hasRecognition, alerted, settings>>
    /\ failedSince' = FALSE

\* The 1000 ms of timeout t have passed.
TimerFires(t) ==
    /\ t \in timeouts
    /\ timeouts' = timeouts \ {t}
    /\ handleTranslate(t.render, "timer")
    /\ UNCHANGED <<sourceLanguage, targetLanguage, inputText, translations,
                   isRecording, autoTranslate, recognitionRef, recognizers,
                   synth, translationTimeoutRef, now, hasRecognition, failedSince, alerted, settings>>

----------------------------------------------------------------------------
(* Editing *)

\* textarea onChange
Type(text) ==
    /\ text \in Texts
    /\ text # inputText
    /\ inputText' = text
    /\ UNCHANGED <<sourceLanguage, targetLanguage, isRecording, isTranslating,
                   autoTranslate>>
    /\ useEffect
    /\ UNCHANGED <<translations, recognitionRef, recognizers, synth, pending,
                   issued, now, hasRecognition, alerted, settings>>
    /\ failedSince' = FALSE

\* checkbox onChange
ToggleAutoTranslate ==
    /\ settings < MaxSettings
    /\ settings' = settings + 1
    /\ autoTranslate' = ~autoTranslate
    /\ UNCHANGED <<sourceLanguage, targetLanguage, inputText, isRecording,
                   isTranslating>>
    /\ useEffect
    /\ UNCHANGED <<translations, recognitionRef, recognizers, synth, pending,
                   issued, now, hasRecognition, failedSince, alerted>>

\* "Translate to" onChange
ChangeTargetLanguage(code) ==
    /\ settings < MaxSettings
    /\ settings' = settings + 1
    /\ code \in languages
    /\ code # targetLanguage
    /\ targetLanguage' = code
    /\ UNCHANGED <<sourceLanguage, inputText, translations, isRecording,
                   isTranslating, autoTranslate, recognitionRef, recognizers,
                   synth, translationTimeoutRef, timeouts, pending, issued,
                   now, hasRecognition, failedSince, alerted>>

\* An updater that flips every record.
toggleFavoriteAll(prev, id) ==
    [i \in DOMAIN prev |-> [prev[i] EXCEPT !.isFavorite = ~prev[i].isFavorite]]

\* toggleFavorite's updater.
toggleFavorite(prev, id) ==
    [i \in DOMAIN prev |->
        IF prev[i].id = id
        THEN [prev[i] EXCEPT !.isFavorite = ~prev[i].isFavorite]
        ELSE prev[i]]

\* Every id toggleFavorite can be called with.
Ids == {ToString(t) : t \in 0..(MaxClock + 1)}

ToggleFavorite(id) ==
    /\ id \in Ids
    /\ translations' = toggleFavorite(translations, id)
    /\ UNCHANGED <<sourceLanguage, targetLanguage, inputText, isRecording,
                   isTranslating, autoTranslate, recognitionRef, recognizers,
                   synth, translationTimeoutRef, timeouts, pending, issued,
                   now, hasRecognition, failedSince, alerted, settings>>

----------------------------------------------------------------------------
(* Recording.  A recognizer is listening after start(); stop() makes it
   stopping: it may still deliver a result from the audio it has, and then
   ends.  An error is followed by the end.  langCut notes that the recognizer
   was stopped by a source-language change made while recording. *)

\* The render of the initial state cells (App.tsx:10-16).
InitialRender ==
    [sourceLanguage |-> "en", targetLanguage |-> "ta", inputText |-> <<>>,
     isRecording |-> FALSE, isTranslating |-> FALSE, autoTranslate |-> TRUE]

\* A recognizer that has ended calls no handler again: the model forgets
\* what its handlers captured.
Ended ==
    [state |-> "ended", lang |-> "en", render |-> InitialRender,
     langCut |-> FALSE]

\* SpeechRecognition.stop()
stop(rec) == [rec EXCEPT !.state = IF @ = "listening" THEN "stopping" ELSE @]

\* startRecording without the capability test.
StartRecordingUnchecked ==
    /\ ~isRecording
    /\ Len(recognizers) < MaxSessions
    /\ issued + Len(recognizers) < MaxActivity
    /\ recognizers' = Append(recognizers,
            [state |-> "listening", lang |-> sourceLanguage,
             render |-> Render, langCut |-> FALSE])
    /\ recognitionRef' = Len(recognizers) + 1
    /\ isRecording' = TRUE
    /\ UNCHANGED <<sourceLanguage, targetLanguage, inputText, translations,
                   isTranslating, autoTranslate, synth, translationTimeoutRef,
                   timeouts, pending, issued, now, hasRecognition, failedSince, alerted,
                   settings>>

\* The microphone button while it shows "Start voice input".
StartRecording ==
    /\ ~isRecording
    /\ IF hasRecognition
       THEN /\ Len(recognizers) < MaxSessions
            /\ issued + Len(recognizers) < MaxActivity
            /\ recognizers' = Append(recognizers,
                    [state |-> "listening", lang |-> sourceLanguage,
                     render |-> Render, langCut |-> FALSE])
            /\ recognitionRef' = Len(recognizers) + 1
            /\ isRecording' = TRUE
            /\ UNCHANGED alerted
       ELSE /\ alerted' = TRUE
            /\ UNCHANGED <<recognizers, recognitionRef, isRecording>>
    /\ UNCHANGED <<sourceLanguage, targetLanguage, inputText, translations,
                   isTranslating, autoTranslate, synth, translationTimeoutRef,
                   timeouts, pending, issued, now, hasRecognition, failedSince, settings>>

\* stopRecording(): the recognizers and isRecording after the call.
stopRecording ==
    IF recognitionRef # 0
    THEN /\ recognizers' = [recognizers EXCEPT ![recognitionRef] = stop(@)]
         /\ isRecording' = FALSE
    ELSE UNCHANGED <<recognizers, isRecording>>

\* The microphone button while it shows "Stop recording".
StopRecording ==
    /\ isRecording
    /\ stopRecording
    /\ UNCHANGED <<sourceLanguage, targetLanguage, inputText, translations,
                   isTranslating, autoTranslate, recognitionRef, synth,
                   translationTimeoutRef, timeouts, pending, issued, now,
                   hasRecognition, failedSince, alerted, settings>>

\* "Translate from" onChange
ChangeSourceLanguage(code) ==
    /\ settings < MaxSettings
    /\ settings' = settings + 1
    /\ code \in languages
    /\ code # sourceLanguage
    /\ sourceLanguage' = code
    /\ IF recognitionRef # 0
       THEN /\ recognizers' =
                 [recognizers EXCEPT ![recognitionRef] =
                     IF @.state = "ended" THEN @
                     ELSE [stop(@) EXCEPT !.lang = code,
                                          !.langCut = @ \/ isRecording]]
            /\ isRecording' = FALSE
       ELSE UNCHANGED <<recognizers, isRecording>>
    /\ UNCHANGED <<targetLanguage, inputText, translations, isTranslating,
                   autoTranslate, recognitionRef, synth, translationTimeoutRef,
                   timeouts, pending, issued, now, hasRecognition, failedSince, alerted>>

\* recognition.onresult of recognizer i with the joined transcript.
onresult(i, transcript) ==
    /\ i \in DOMAIN recognizers
    /\ recognizers[i].state \in {"listening", "stopping"}
    /\ transcript \in Transcripts
    /\ inputText' = transcript
    /\ UNCHANGED <<sourceLanguage, targetLanguage, isRecording, isTranslating,
                   autoTranslate>>
    /\ useEffect
    /\ UNCHANGED <<translations, recognitionRef, recognizers, synth, pending,
                   issued, now, hasRecognition, alerted, settings>>
    /\ failedSince' = FALSE

\* recognition.onerror of recognizer i.
onerror(i) ==
    /\ i \in DOMAIN recognizers
    /\ recognizers[i].state = "listening"
    /\ recognizers' = [recognizers EXCEPT ![i].state = "error"]
    /\ isRecording' = FALSE
    /\ UNCHANGED <<sourceLanguage, targetLanguage, inputText, translations,
                   isTranslating, autoTranslate, recognitionRef, synth,
                   translationTimeoutRef, timeouts, pending, issued, now,
                   hasRecognition, failedSince, alerted, settings>>

\* recognition.onend of recognizer i: the closure of the render that
\* called startRecording.
onend(i) ==
    /\ i \in DOMAIN recognizers
    /\ recognizers[i].state \in {"listening", "stopping", "error"}
    /\ recognizers' = [recognizers EXCEPT ![i] = Ended]
    /\ isRecording' = FALSE
    /\ LET r == recognizers[i].render IN
       IF Truthy(trim(r.inputText)) /\ r.autoTranslate
       THEN handleTranslate(r, "ended")
       ELSE UNCHANGED <<isTranslating, pending, issued>>
    /\ UNCHANGED <<sourceLanguage, targetLanguage, inputText, translations,
                   autoTranslate, recognitionRef, synth, translationTimeoutRef,
                   timeouts, now, hasRecognition, alerted, settings>>
    /\ failedSince' = FALSE

----------------------------------------------------------------------------
\* Time passes.
Tick ==
    /\ now < MaxClock
    /\ now' = now + 1
    /\ UNCHANGED <<sourceLanguage, targetLanguage, inputText, translations,
                   isRecording, isTranslating, autoTranslate, recognitionRef,
                   recognizers, synth, translationTimeoutRef, timeouts,
                   pending, issued, hasRecognition, failedSince, alerted, settings>>

----------------------------------------------------------------------------
(* The whole program *)

Next ==
    \/ \E text \in Texts : Type(text)
    \/ ToggleAutoTranslate
    \/ \E code \in languages : ChangeSourceLanguage(code)
    \/ \E code \in languages : ChangeTargetLanguage(code)
    \/ Submit
    \/ \E t \in timeouts : TimerFires(t)
    \/ \E p \in pending : \E resp \in Responses : TranslateReturns(p, resp)
    \/ StartRecording
    \/ StopRecording
    \/ \E i \in DOMAIN recognizers : \E transcript \in Transcripts : onresult(i, transcript)
    \/ \E i \in DOMAIN recognizers : onerror(i)
    \/ \E i \in DOMAIN recognizers : onend(i)
    \/ \E id \in Ids : ToggleFavorite(id)
    \/ \E i \in DOMAIN translations : PlayTranslation(i)
    \/ SynthStart
    \/ SynthEnd
    \/ Tick

Spec == Init /\ [][Next]_vars

----------------------------------------------------------------------------
(* The specifications the properties are checked under.  Each lets the user
   and the platform take a group of the actions of Next, so that TLC can
   explore it exhaustively. *)

\* Typing, settings and translation on a platform without speech recognition.
NextEditing ==
    \/ \E text \in Texts : Type(text)
    \/ ToggleAutoTranslate
    \/ \E code \in languages : ChangeSourceLanguage(code)
    \/ \E code \in languages : ChangeTargetLanguage(code)
    \/ Submit
    \/ \E t \in timeouts : TimerFires(t)
    \/ \E p \in pending : \E resp \in Responses : TranslateReturns(p, resp)
    \/ StartRecording
    \/ SynthStart
    \/ SynthEnd

\* The platform offers no speech recognition.
InitUnsupported == Init /\ hasRecognition = FALSE

SpecEditing == InitUnsupported /\ [][NextEditing]_vars

\* The service is reachable and translates, or is not reachable at all.
HistoryResponses ==
    {resp \in Responses : Succeeded(resp) \/ resp.kind = "transport"}

\* Typing, translation and the history list, with time passing.
NextHistory ==
    \/ \E text \in Texts : Type(text)
    \/ Submit
    \/ \E t \in timeouts : TimerFires(t)
    \/ \E p \in pending : \E resp \in HistoryResponses : TranslateReturns(p, resp)
    \/ \E id \in Ids : ToggleFavorite(id)
    \/ \E i \in DOMAIN translations : PlayTranslation(i)
    \/ SynthStart
    \/ SynthEnd
    \/ Tick

SpecHistory == InitUnsupported /\ [][NextHistory]_vars

\* Typing, dictation and translation on a platform with speech recognition
\* whose synthesizer has not begun to speak.
NextRecording ==
    \/ StartRecording
    \/ StopRecording
    \/ \E i \in DOMAIN recognizers : \E transcript \in Transcripts : onresult(i, transcript)
    \/ \E i \in DOMAIN recognizers : onerror(i)
    \/ \E i \in DOMAIN recognizers : onend(i)
    \/ \E text \in Texts : Type(text)
    \/ ToggleAutoTranslate
    \/ \E code \in languages : ChangeSourceLanguage(code)
    \/ Submit
    \/ \E t \in timeouts : TimerFires(t)
    \/ \E p \in pending : \E resp \in Responses : TranslateReturns(p, resp)

\* The platform offers speech recognition.
InitSupported == Init /\ hasRecognition = TRUE

SpecRecording == InitSupported /\ [][NextRecording]_vars

\* Typing, dictation that can fail, and translation, with the settings as
\* they are at the start.
NextRecovery ==
    \/ StartRecording
    \/ StopRecording
    \/ \E i \in DOMAIN recognizers : onerror(i)
    \/ \E i \in DOMAIN recognizers : onend(i)
    \/ \E text \in Texts : Type(text)
    \/ Submit
    \/ \E t \in timeouts : TimerFires(t)
    \/ \E p \in pending : \E resp \in Responses : TranslateReturns(p, resp)

SpecRecovery == InitSupported /\ [][NextRecovery]_vars

----------------------------------------------------------------------------
(* Properties *)

\* The step appends exactly one record built for request p with target
\* text R, in front of the unchanged previous records.
AppendsRecord(p, R) ==
    /\ Len(translations') = Len(translations) + 1
    /\ SubSeq(translations', 2, Len(translations')) = translations
    /\ translations'[1].sourceText = p.text
    /\ translations'[1].sourceLanguage = p.from
    /\ translations'[1].targetText = R
    /\ translations'[1].targetLanguage = p.to
    /\ translations'[1].isFavorite = FALSE

\* The step hands the synthesizer exactly one new utterance, (R, T).
SpeaksOnce(R, T) ==
    /\ synth'.queue # <<>>
    /\ synth'.queue[Len(synth'.queue)] = [text |-> R, lang |-> T]
    /\ Len(synth'.queue) = IF synth.speaking THEN 1 ELSE Len(synth.queue) + 1

C2_AtMostOneInFlight == Cardinality(pending) <= 1

\* C3 (as claimed): every translate call that returns success with text R
\* appends exactly one record (S, F, R, T, isFavorite = false) and speaks
\* (R, T) exactly once.
C3_SuccessAppendsAndSpeaks ==
    [][\A p \in pending : \A resp \in Responses :
          (TranslateReturns(p, resp) /\ Succeeded(resp))
              => AppendsRecord(p, resp.text) /\ SpeaksOnce(resp.text, p.to)]_vars

\* C3 (amended): every translate call that returns success with a non-empty
\* text R appends exactly one record (S, F, R, T, isFavorite = false) and
\* speaks (R, T) exactly once, whatever inputText and the languages are by
\* then; a success with an empty text appends and speaks nothing.
C3_NonEmptySuccessAppendsAndSpeaks ==
    [][\A p \in pending : \A resp \in Responses :
          (TranslateReturns(p, resp) /\ Succeeded(resp))
              => IF resp.text # <<>>
                 THEN AppendsRecord(p, resp.text) /\ SpeaksOnce(resp.text, p.to)
                 ELSE UNCHANGED <<translations, synth>>]_vars

\* The newest record is a successful translation made for a text and a
\* target language that are no longer the current ones, and its utterance
\* is the last one handed to the synthesizer.
C3_Witness ==
    /\ translations # <<>>
    /\ translations[1].targetText = <<"x">>
    /\ translations[1].sourceText # inputText
    /\ translations[1].targetLanguage # targetLanguage
    /\ synth.queue # <<>>
    /\ synth.queue[Len(synth.queue)] =
           [text |-> <<"x">>, lang |-> translations[1].targetLanguage]

\* The message of a failed call: the service's responseDetails, the
\* fallback text, or the transport error's own message.
FailureMessage(resp) ==
    IF resp.kind = "status" /\ resp.text = <<>>
    THEN <<"Translation failed">>
    ELSE resp.text

\* C4: when a translate call fails (a status other than 200, or a transport
\* failure) the error message, as translateText words it, is appended as the
\* targetText of one record and spoken in the target language, exactly as a
\* translation is, and isTranslating is false after the call returns.
C4_FailureIsRecordedAndSpoken ==
    [][\A p \in pending : \A resp \in Responses :
          (TranslateReturns(p, resp)
             /\ (resp.kind = "transport" \/ resp.responseStatus # 200))
              => /\ AppendsRecord(p,
                       <<"Error translating text: ">> \o FailureMessage(resp))
                 /\ SpeaksOnce(
                       <<"Error translating text: ">> \o FailureMessage(resp), p.to)
                 /\ isTranslating' = FALSE]_vars

\* The newest record holds an error message, its utterance was handed to the
\* synthesizer, and no translation is marked as running.
C4_Witness ==
    /\ translations # <<>>
    /\ translations[1].targetText \in
           {<<"Error translating text: ", "Translation failed">>,
            <<"Error translating text: ", "Network Error">>,
            <<"Error translating text: ", "d">>}
    /\ synth.queue # <<>>
    /\ synth.queue[Len(synth.queue)].text = translations[1].targetText
    /\ ~isTranslating

\* C5: when a recognizer's Ended event arrives while autoTranslate is on,
\* inputText is non-blank and no translation is in flight, its handling
\* issues a translate call.
C5_EndedTranslatesImmediately ==
    [][\A i \in DOMAIN recognizers :
          (onend(i) /\ autoTranslate /\ Truthy(trim(inputText))
                    /\ ~isTranslating /\ pending = {})
              => issued' = issued + 1]_vars

\* C6: once a source-language change has stopped a recording, no event of
\* that recognition session (onresult, onerror, onend) changes inputText or
\* isRecording or issues a translate call.
C6_OldSessionIsSilent ==
    [][\A i \in DOMAIN recognizers :
          recognizers[i].langCut =>
              \A transcript \in Transcripts :
                  (onresult(i, transcript) \/ onerror(i) \/ onend(i))
                      => /\ inputText' = inputText
                         /\ isRecording' = isRecording
                         /\ issued' = issued]_vars

\* C7: toggleFavorite(id) flips isFavorite of the records whose id is id and
\* changes nothing else: the length and order of the list, every other field
\* of every record, the other records, the state cells of the pipeline, the
\* pending timer, the requests in flight, the recognizers and the
\* synthesizer; with an id no record has, nothing changes.
C7_ToggleFavoriteFrame ==
    [][\A id \in Ids :
          ToggleFavorite(id) =>
              /\ Len(translations') = Len(translations)
              /\ \A i \in DOMAIN translations :
                    /\ translations'[i].id = translations[i].id
                    /\ translations'[i].sourceText = translations[i].sourceText
                    /\ translations'[i].sourceLanguage = translations[i].sourceLanguage
                    /\ translations'[i].targetText = translations[i].targetText
                    /\ translations'[i].targetLanguage = translations[i].targetLanguage
                    /\ translations'[i].timestamp = translations[i].timestamp
                    /\ translations'[i].isFavorite =
                           IF translations[i].id = id
                           THEN ~translations[i].isFavorite
                           ELSE translations[i].isFavorite
              /\ ((\A i \in DOMAIN translations : translations[i].id # id)
                     => translations' = translations)
              /\ pipeline' = pipeline
              /\ UNCHANGED <<translationTimeoutRef, timeouts, pending, issued,
                             recognitionRef, recognizers, synth>>]_vars

\* Two records with different ids, of which exactly the older is a favorite.
C7_Witness ==
    /\ Len(translations) = 2
    /\ translations[1].id # translations[2].id
    /\ ~translations[1].isFavorite
    /\ translations[2].isFavorite

\* The list is newest-first: timestamps never increase from front to back.
NewestFirst(list) ==
    \A i \in DOMAIN list : \A j \in DOMAIN list :
        i < j => list[i].timestamp >= list[j].timestamp

\* C8: whenever the list grows, the new record is at index 0 and the records
\* it had follow in their previous order; and the list is newest-first after
\* every step.
C8_AppendAtFrontNewestFirst ==
    [][/\ Len(translations') # Len(translations)
          => /\ Len(translations') = Len(translations) + 1
             /\ SubSeq(translations', 2, Len(translations')) = translations
       /\ NewestFirst(translations')]_vars

\* Two records made at different times, the newer one in front.
C8_Witness ==
    /\ Len(translations) = 2
    /\ translations[1].timestamp > translations[2].timestamp

\* C9: the synthesizer never holds two utterances of this page at once.
C9_AtMostOneUtterance == Len(synth.queue) <= 1

\* C10: startRecording on a platform without speech recognition shows the
\* notice and changes nothing else: isRecording stays false, no recognizer
\* is created, and the state cells, the pending timer, the requests in
\* flight and the list are unchanged.
C10_UnsupportedStartChangesNothing ==
    [][(StartRecording /\ ~hasRecognition) =>
          /\ alerted'
          /\ ~isRecording'
          /\ recognizers' = <<>>
          /\ recognitionRef' = 0
          /\ pipeline' = pipeline
          /\ UNCHANGED <<translations, translationTimeoutRef, timeouts,
                         pending, issued, synth>>]_vars

\* The notice has been shown while a debounce timer was pending, and it is
\* still pending.
C10_Witness ==
    /\ alerted
    /\ ~hasRecognition
    /\ timeouts # {}
    /\ ~isRecording

\* C11: at most one debounce timer is pending, and it is the one the last
\* change of inputText or autoTranslate scheduled: its handle is the one in
\* translationTimeoutRef and its callback belongs to a render with the
\* current inputText and autoTranslate on; so a superseded timer never fires.
C11_OnePendingTimer ==
    /\ Cardinality(timeouts) <= 1
    /\ \A t \in timeouts :
          /\ t.handle = translationTimeoutRef
          /\ t.render.inputText = inputText
          /\ t.render.autoTranslate
          /\ autoTranslate
          /\ Truthy(trim(inputText))

\* A timer is pending that was scheduled after the Translate button sent the
\* request in flight: the timer of the text that was submitted is gone.
C11_Witness ==
    /\ \E t \in timeouts : t.render.isTranslating
    /\ pending # {}
    /\ \A p \in pending : p.via = "submit"

\* C12: no failure leaves the page stuck.  Whenever no request is in flight
\* isTranslating is false; the step that handles a recognition error leaves
\* isRecording false; and the Translate button, which is enabled whenever the
\* text is non-blank and no request is in flight, issues a translate call
\* for the current text.
C12_StableAfterFailure ==
    [][/\ (pending' = {} => ~isTranslating')
       /\ \A i \in DOMAIN recognizers : onerror(i) => ~isRecording'
       /\ ((pending = {} /\ Truthy(trim(inputText)) /\ issued < MaxCalls
               /\ issued + Len(recognizers) < MaxActivity)
             => ENABLED Submit)
       /\ (Submit =>
              /\ issued' = issued + 1
              /\ \E p \in pending' \ pending :
                    p.via = "submit" /\ p.text = inputText)]_vars

\* A translate call has failed and a recognizer has reported an error; no
\* request is in flight, and the text typed since then can be submitted.
C12_Witness ==
    /\ pending = {}
    /\ ~isTranslating
    /\ ~isRecording
    /\ translations # <<>>
    /\ Head(translations[1].targetText) = "Error translating text: "
    /\ \E i \in DOMAIN recognizers : recognizers[i].state = "error"
    /\ Truthy(trim(inputText))
    /\ ENABLED Submit

\* C13: every translate call is issued with the inputText, sourceLanguage
\* and targetLanguage the state cells hold when it is issued.
C13_CallUsesCurrentState ==
    [][\A p \in pending' \ pending :
          /\ p.text = inputText
          /\ p.from = sourceLanguage
          /\ p.to = targetLanguage]_vars

\* C14: when a translation returns with a text, inputText is cleared if
\* isRecording is false at that moment and left unchanged if it is true.
C14_ClearedIffNotRecording ==
    [][\A p \in pending : \A resp \in Responses :
          (TranslateReturns(p, resp) /\ Truthy(translateTextResult(resp)))
              => inputText' = IF ~isRecording THEN <<>> ELSE inputText]_vars

\* C15: no step removes a record, and every record of the store keeps its
\* id, sourceText, sourceLanguage, targetText, targetLanguage and timestamp
\* (records are counted from the old end of the list, new ones being put in
\* front).
C15_RecordsAreKept ==
    [][/\ Len(translations') >= Len(translations)
       /\ \A i \in DOMAIN translations :
             LET j == i + Len(translations') - Len(translations) IN
             /\ translations'[j].id = translations[i].id
             /\ translations'[j].sourceText = translations[i].sourceText
             /\ translations'[j].sourceLanguage = translations[i].sourceLanguage
             /\ translations'[j].targetText = translations[i].targetText
             /\ translations'[j].targetLanguage = translations[i].targetLanguage
             /\ translations'[j].timestamp = translations[i].timestamp]_vars

\* Two records made at different times with different outcomes, the newer
\* one marked as a favorite.
C15_Witness ==
    /\ Len(translations) = 2
    /\ translations[1].isFavorite
    /\ ~translations[2].isFavorite
    /\ translations[1].timestamp # translations[2].timestamp
    /\ translations[1].targetText # translations[2].targetText

\* C16: after a translate call has failed, no translate call is issued
\* before a new triggering event (a text change, the Translate button, or a
\* recognizer's Ended event): a debounce timer that fires in between sends
\* nothing.
C16_NoCallAfterFailureWithoutTrigger ==
    [][\A t \in timeouts :
          (TimerFires(t) /\ failedSince) => issued' = issued]_vars

\* C17: no two records of the list have the same id.
C17_UniqueIds ==
    \A i \in DOMAIN translations : \A j \in DOMAIN translations :
        i # j => translations[i].id # translations[j].id

\* C18: whenever a recognizer is listening (started, neither stopped nor
\* failed nor ended), isRecording is true.
C18_ListeningImpliesRecording ==
    (\E i \in DOMAIN recognizers : recognizers[i].state = "listening")
        => isRecording

\* C19: while autoTranslate is off no debounce timer is pending, and every
\* step that issues a translate call is a click on the Translate button.
C19_OnlySubmitWhileAutoOff ==
    [][/\ (~autoTranslate' => timeouts' = {})
       /\ ((~autoTranslate /\ issued' # issued) => Submit)]_vars

====
